---- MODULE Spec2Model ----
(***************************************************************************)
(* Model of src/homework.py: the poll / detect / notify loop of the        *)
(* homework-status bot.                                                    *)
(*                                                                         *)
(* Python values are encoded as follows.                                   *)
(*   - A str is a sequence of text tokens; '' is << >>.  Concatenation and *)
(*     f-string interpolation are \o.  The program's Russian literals are  *)
(*     written in ASCII (their English rendering), one token per literal.  *)
(*   - An optional value (None or v) is << >> or << v >>.                  *)
(*   - A decoded JSON document is a record with its Python type name and   *)
(*     the two keys the program reads; a key that is absent is << >>.      *)
(*   - A homework (dict) is a function from the keys it has to strings.    *)
(*   - An exception is a record [cls, text]; text is str(exception).       *)
(***************************************************************************)
EXTENDS Integers, Sequences, FiniteSets, Bags, TLC

VARIABLES
    env,               \* the three environment values (lines 13-15)
    pc,                \* position in main()
    timestamp,         \* main's timestamp = {'from_date': ...}
    previous_message,  \* main's previous_message
    api,               \* what the status API did on this cycle's request
    response,          \* main's response
    homework,          \* main's homework
    message,           \* main's message
    propagating,       \* an exception is leaving the try statement
    last_sent,         \* history: the message of the latest send_message call
    sent_count,        \* history: bag of the messages of all send_message calls
    send_outcome,      \* history: how this iteration's bot.send_message call ended
    cycle,             \* history: number of loop iterations begun
    repeated,          \* history: this cycle's API outcome equals the previous one
    calls_in_cycle,    \* history: bot.send_message calls in this iteration
    calls_prev_cycle,  \* history: bot.send_message calls in the previous one
    sleeps_since_fetch,\* history: time.sleep calls since the last request
    failed,            \* history: this iteration raised inside the try block
    cycle_cursor,      \* history: the timestamp this iteration's request was made with
    cursor_assigned,   \* history: this iteration has executed line 127
    mapping_cursor     \* history: start time, or current_date of the latest dict returned

vars == <<env, pc, timestamp, previous_message, api, response,
          homework, message, propagating, last_sent, sent_count, send_outcome,
          cycle, repeated, calls_in_cycle, calls_prev_cycle, sleeps_since_fetch, failed,
          cycle_cursor, cursor_assigned, mapping_cursor>>

(***************************************************************************)
(* Bounds and input sets                                                   *)
(***************************************************************************)
MaxCycles == 3

None == << >>
Some(v) == << v >>

TokenNames == {"PRACTICUM_TOKEN", "TELEGRAM_TOKEN", "TELEGRAM_CHAT_ID"}
EnvValues == {None, Some(""), Some("secret")}
StartTimes == {50}
Dates == {200, 300}
StatusCodes == {200, 500}
Names == {"hw1"}
Statuses == {"", "approved", "reviewing", "rejected", "bogus"}
HomeworkKeys == {"homework_name", "status"}

(***************************************************************************)
(* Program constants                                                       *)
(***************************************************************************)
ENDPOINT == "https://practicum.yandex.ru/api/user_api/homework_statuses/"
HTTPStatus_OK == 200

\* variant: the texts of approved and rejected exchanged
HOMEWORK_VERDICTS_Swapped ==
    [approved  |-> "Reviewed: the reviewer has comments.",
     reviewing |-> "Taken up for review by the reviewer.",
     rejected  |-> "Reviewed: the reviewer liked everything. Success!"]

HOMEWORK_VERDICTS ==
    [approved  |-> "Reviewed: the reviewer liked everything. Success!",
     reviewing |-> "Taken up for review by the reviewer.",
     rejected  |-> "Reviewed: the reviewer has comments."]

(***************************************************************************)
(* Values the status API can return                                        *)
(***************************************************************************)
EmptyDict == [k \in {} |-> ""]

Homeworks ==
    {hw \in UNION {[d -> Names \cup Statuses] : d \in SUBSET HomeworkKeys} :
        /\ "homework_name" \in DOMAIN hw => hw["homework_name"] \in Names
        /\ "status" \in DOMAIN hw => hw["status"] \in Statuses}

HomeworksValues ==
    {[type |-> "list", items |-> << >>], [type |-> "str", items |-> << >>]}
    \cup {[type |-> "list", items |-> <<h>>] : h \in Homeworks}

Documents ==
    {[type |-> "dict", current_date |-> d, homeworks |-> h] :
        d \in {None} \cup {Some(n) : n \in Dates},
        h \in {None} \cup {Some(v) : v \in HomeworksValues}}
    \cup {[type |-> "list", current_date |-> None, homeworks |-> None]}

NoDocument == [type |-> "NoneType", current_date |-> None, homeworks |-> None]

\* A request either raises requests.RequestException, or returns a status
\* code with a body that decodes (Some(document)) or does not (None).
ApiOutcomes ==
    {[raised |-> TRUE, status_code |-> 0, body |-> None]}
    \cup {[raised |-> FALSE, status_code |-> c, body |-> None] : c \in StatusCodes}
    \cup {[raised |-> FALSE, status_code |-> HTTPStatus_OK, body |-> Some(d)] :
            d \in Documents}

NoOutcome == [raised |-> FALSE, status_code |-> 0, body |-> None]

SendOutcomes == {"sent", "TelegramError"}

(***************************************************************************)
(* Exceptions and results                                                  *)
(***************************************************************************)
Exception(cls, text) == [cls |-> cls, text |-> text]
Raise(cls, text, dummy) == [error |-> Some(Exception(cls, text)), value |-> dummy]
Return(v) == [error |-> None, value |-> v]
Raised(r) == r.error # None

\* type(x) formatted in an f-string
TypeRepr(type) == <<"<class '", type, "'>">>

\* str(KeyError(s)) is repr(s)
KeyErrorText(s) == <<"'", s, "'">>

(***************************************************************************)
(* check_tokens, lines 37-42                                               *)
(***************************************************************************)
Truthy(v) == v # None /\ v[1] # ""

\* variant: any() in place of all()
check_tokens_Any(e) == \E n \in TokenNames : Truthy(e[n])

check_tokens(e) == \A n \in TokenNames : Truthy(e[n])

(***************************************************************************)
(* get_api_answer, lines 55-65.  When requests.get raises, the handler     *)
(* logs and falls through to line 62, where the local name homeworks is    *)
(* unbound: the interpreter raises UnboundLocalError.                      *)
(***************************************************************************)
\* str(UnboundLocalError) as CPython words it up to 3.10; from 3.11 on the
\* wording is "cannot access local variable 'homeworks' where it is not
\* associated with a value".  Neither wording contains ENDPOINT.
UnboundLocalText ==
    <<"local variable 'homeworks' referenced before assignment">>

get_api_answer(o) ==
    IF o.raised
    THEN Raise("UnboundLocalError", UnboundLocalText, NoDocument)
    ELSE IF o.status_code # HTTPStatus_OK
    THEN Raise("ConnectionError",
               <<"Endpoint ", ENDPOINT, " is unavailable. API response code: ",
                 ToString(o.status_code)>>,
               NoDocument)
    ELSE IF o.body = None
    THEN Raise("JSONDecodeError", <<"Expecting value: line 1 column 1 (char 0)">>,
               NoDocument)
    ELSE Return(o.body[1])

(***************************************************************************)
(* response.get('current_date'), line 126                                  *)
(***************************************************************************)
\* variant: response['current_date'] in place of response.get('current_date')
get_current_date_Subscript(r) ==
    IF r.type # "dict"
    THEN Raise("TypeError", <<"list indices must be integers or slices, not str">>, None)
    ELSE IF r.current_date = None
    THEN Raise("KeyError", KeyErrorText("current_date"), None)
    ELSE Return(r.current_date)

\* variant: a lookup that does not fail on a document that is not a dict
get_current_date_Lenient(r) == Return(r.current_date)

get_current_date(r) ==
    IF r.type # "dict"
    THEN Raise("AttributeError",
               <<"'", r.type, "' object has no attribute 'get'">>, None)
    ELSE Return(r.current_date)

(***************************************************************************)
(* check_response, lines 68-81                                             *)
(***************************************************************************)
\* variant: the first element is taken without testing for an empty list
check_response_NoEmptyTest(r) ==
    IF r.type # "dict"
    THEN Raise("TypeError", <<"Invalid data type: ">> \o TypeRepr(r.type), EmptyDict)
    ELSE IF r.homeworks = None
    THEN Raise("KeyError", KeyErrorText("Missing key \"homeworks\""), EmptyDict)
    ELSE IF r.homeworks[1].type # "list"
    THEN Raise("TypeError", <<"Invalid data type ">> \o TypeRepr(r.homeworks[1].type),
               EmptyDict)
    ELSE IF r.homeworks[1].items = << >>
    THEN Raise("IndexError", <<"list index out of range">>, EmptyDict)
    ELSE Return(r.homeworks[1].items[1])

check_response(r) ==
    IF r.type # "dict"
    THEN Raise("TypeError", <<"Invalid data type: ">> \o TypeRepr(r.type), EmptyDict)
    ELSE IF r.homeworks = None
    THEN Raise("KeyError", KeyErrorText("Missing key \"homeworks\""), EmptyDict)
    ELSE IF r.homeworks[1].type # "list"
    THEN Raise("TypeError", <<"Invalid data type ">> \o TypeRepr(r.homeworks[1].type),
               EmptyDict)
    ELSE IF r.homeworks[1].items = << >>
    THEN Return(EmptyDict)
    ELSE Return(r.homeworks[1].items[1])

(***************************************************************************)
(* parse_status, lines 84-107                                              *)
(***************************************************************************)
\* variant: an empty message when there is no submission
NoChangeMessage_Empty == << >>

NoChangeMessage == <<"Status did not change">>

StatusMessage(homework_name, verdict) ==
    <<"Status changed for submission \"", homework_name, "\". ", verdict>>

parse_status(hw) ==
    IF DOMAIN hw # {}
    THEN IF "homework_name" \notin DOMAIN hw
         THEN Raise("KeyError", KeyErrorText("Missing key \"homework_name\""), << >>)
         ELSE IF "status" \notin DOMAIN hw
         THEN Raise("KeyError", KeyErrorText("Missing key \"status\""), << >>)
         ELSE IF hw["status"] = ""
         THEN Raise("ValueError", <<"Review status is empty">>, << >>)
         ELSE IF hw["status"] \notin DOMAIN HOMEWORK_VERDICTS
         THEN Raise("KeyError",
                    KeyErrorText("Review status does not match the expected values"),
                    << >>)
         ELSE Return(StatusMessage(hw["homework_name"], HOMEWORK_VERDICTS[hw["status"]]))
    ELSE Return(NoChangeMessage)

(***************************************************************************)
(* main, lines 110-145                                                     *)
(***************************************************************************)
\* line 136: every exception class raised in the try block derives from
\* Exception
ExceptionClasses ==
    {"UnboundLocalError", "ConnectionError", "JSONDecodeError", "AttributeError",
     "TypeError", "KeyError", "ValueError", "TelegramError"}

\* variant: a handler that names one exception class only
except_Exception_Narrow(e) == e.cls = "ConnectionError"

except_Exception(e) == e.cls \in ExceptionClasses

\* line 137
ErrorReport(e) == <<"Program failure: ">> \o e.text

\* variant: no comparison with the previous message
IsDuplicate_Never(msg, prev) == FALSE

\* lines 131 and 139
IsDuplicate(msg, prev) == msg = prev

\* variant: the sleep at the end of the loop body instead of in finally
AfterContinue_SkipFinally == "get_api_answer"

\* lines 132 and 140: continue inside try ... finally runs the finally clause
AfterContinue == "finally"

\* variant: the assignment after send_message is missing
Remember_Never(prev, msg, outcome) == prev

\* variant: the memory is updated on confirmed delivery only
Remember_OnDelivery(prev, msg, outcome) == IF outcome = "sent" THEN msg ELSE prev

\* lines 134 and 142: runs whenever send_message returned
Remember(prev, msg, outcome) == msg

\* variant: the request parameter is never replaced
NextTimestamp_Keep(old, current_date) == old

\* line 127
NextTimestamp(old, current_date) == [from_date |-> current_date]

\* send_message, lines 45-52: one bot.send_message call; TelegramError is
\* logged and not re-raised
TransportCalls(outcome) == 1

\* variant: TelegramError is logged and raised again
send_message_Reraise(msg, outcome) ==
    IF outcome = "TelegramError"
    THEN Raise("TelegramError", <<"Timed out">>, msg)
    ELSE Return(msg)

send_message(msg, outcome) == Return(msg)

Init ==
    /\ env \in [TokenNames -> EnvValues]
    /\ pc = "main"
    /\ timestamp = [from_date |-> None]
    /\ previous_message = << >>
    /\ api = NoOutcome
    /\ response = NoDocument
    /\ homework = EmptyDict
    /\ message = << >>
    /\ propagating = FALSE
    /\ last_sent = None
    /\ sent_count = EmptyBag
    /\ send_outcome = "none"
    /\ cycle = 0
    /\ repeated = FALSE
    /\ calls_in_cycle = 0
    /\ calls_prev_cycle = 0
    /\ sleeps_since_fetch = 0
    /\ failed = FALSE
    /\ cycle_cursor = [from_date |-> None]
    /\ cursor_assigned = FALSE
    /\ mapping_cursor = [from_date |-> None]

\* an exception raised inside the try block: lines 136-138 when the handler
\* matches; otherwise it leaves the try statement through finally
RaiseInTry(e) ==
    /\ failed' = TRUE
    /\ IF except_Exception(e)
       THEN /\ message' = ErrorReport(e)
            /\ pc' = "except_compare"
            /\ UNCHANGED propagating
       ELSE /\ propagating' = TRUE
            /\ pc' = "finally"
            /\ UNCHANGED message

\* lines 112-120
Start ==
    /\ pc = "main"
    /\ IF ~check_tokens(env)
       THEN /\ pc' = "exit"
            /\ UNCHANGED <<timestamp, previous_message, cycle_cursor, mapping_cursor>>
       ELSE /\ pc' = "get_api_answer"
            /\ \E t \in StartTimes :
                 /\ timestamp' = [from_date |-> Some(t)]
                 /\ cycle_cursor' = [from_date |-> Some(t)]
                 /\ mapping_cursor' = [from_date |-> Some(t)]
            /\ previous_message' = << >>
    /\ UNCHANGED <<env, api, response, homework, message, propagating,
                   last_sent, sent_count, send_outcome, cycle, repeated,
                   calls_in_cycle, calls_prev_cycle, sleeps_since_fetch, failed,
                   cursor_assigned>>

\* line 124.  The bindings of response and homework left by the previous
\* iteration are dead (every path assigns them before reading them), so they
\* are cleared here.
GetApiAnswer ==
    /\ pc = "get_api_answer"
    /\ cycle < MaxCycles
    /\ \E o \in ApiOutcomes :
         LET r == get_api_answer(o) IN
         /\ api' = o
         /\ repeated' = (cycle > 0 /\ o = api)
         /\ mapping_cursor' = IF ~o.raised /\ o.status_code = HTTPStatus_OK
                                 /\ o.body # None /\ o.body[1].type = "dict"
                              THEN [from_date |-> o.body[1].current_date]
                              ELSE mapping_cursor
         /\ IF Raised(r)
            THEN /\ RaiseInTry(r.error[1])
                 /\ response' = NoDocument
            ELSE /\ response' = r.value
                 /\ pc' = "current_date"
                 /\ failed' = FALSE
                 /\ UNCHANGED <<message, propagating>>
    /\ cycle' = cycle + 1
    /\ calls_prev_cycle' = calls_in_cycle
    /\ calls_in_cycle' = 0
    /\ sleeps_since_fetch' = 0
    /\ homework' = EmptyDict
    /\ send_outcome' = "none"
    /\ cursor_assigned' = FALSE
    /\ UNCHANGED <<env, timestamp, previous_message, last_sent,
                   sent_count, cycle_cursor>>

\* lines 126-127
ReadCurrentDate ==
    /\ pc = "current_date"
    /\ LET r == get_current_date(response) IN
       IF Raised(r)
       THEN /\ RaiseInTry(r.error[1])
            /\ UNCHANGED <<timestamp, cursor_assigned>>
       ELSE /\ timestamp' = NextTimestamp(timestamp, r.value)
            /\ cursor_assigned' = TRUE
            /\ pc' = "check_response"
            /\ UNCHANGED <<message, propagating, failed>>
    /\ UNCHANGED <<env, previous_message, api, response, homework,
                   last_sent, sent_count, send_outcome, cycle, repeated,
                   calls_in_cycle, calls_prev_cycle, sleeps_since_fetch,
                   cycle_cursor, mapping_cursor>>

\* line 129
CheckResponse ==
    /\ pc = "check_response"
    /\ LET r == check_response(response) IN
       IF Raised(r)
       THEN /\ RaiseInTry(r.error[1])
            /\ UNCHANGED homework
       ELSE /\ homework' = r.value
            /\ pc' = "parse_status"
            /\ UNCHANGED <<message, propagating, failed>>
    /\ UNCHANGED <<env, timestamp, previous_message, api, response,
                   last_sent, sent_count, send_outcome, cycle, repeated,
                   calls_in_cycle, calls_prev_cycle, sleeps_since_fetch,
                   cycle_cursor,
                   cursor_assigned, mapping_cursor>>

\* line 130
ParseStatus ==
    /\ pc = "parse_status"
    /\ LET r == parse_status(homework) IN
       IF Raised(r)
       THEN RaiseInTry(r.error[1])
       ELSE /\ message' = r.value
            /\ pc' = "compare"
            /\ UNCHANGED <<propagating, failed>>
    /\ UNCHANGED <<env, timestamp, previous_message, api, response,
                   homework, last_sent, sent_count, send_outcome, cycle, repeated,
                   calls_in_cycle, calls_prev_cycle, sleeps_since_fetch,
                   cycle_cursor,
                   cursor_assigned, mapping_cursor>>

\* lines 131-132
Compare ==
    /\ pc = "compare"
    /\ pc' = IF IsDuplicate(message, previous_message)
             THEN AfterContinue ELSE "send_message"
    /\ UNCHANGED <<env, timestamp, previous_message, api, response,
                   homework, message, propagating, last_sent, sent_count,
                   send_outcome, cycle, repeated, calls_in_cycle,
                   calls_prev_cycle, sleeps_since_fetch, failed, cycle_cursor,
                   cursor_assigned, mapping_cursor>>

\* variant: the handler sends its report without comparing it
ExceptCompare_NoDedup ==
    /\ pc = "except_compare"
    /\ pc' = "except_send_message"
    /\ UNCHANGED <<env, timestamp, previous_message, api, response,
                   homework, message, propagating, last_sent, sent_count,
                   send_outcome, cycle, repeated, calls_in_cycle,
                   calls_prev_cycle, sleeps_since_fetch, failed, cycle_cursor,
                   cursor_assigned, mapping_cursor>>

\* lines 139-140
ExceptCompare ==
    /\ pc = "except_compare"
    /\ pc' = IF IsDuplicate(message, previous_message)
             THEN AfterContinue ELSE "except_send_message"
    /\ UNCHANGED <<env, timestamp, previous_message, api, response,
                   homework, message, propagating, last_sent, sent_count,
                   send_outcome, cycle, repeated, calls_in_cycle,
                   calls_prev_cycle, sleeps_since_fetch, failed, cycle_cursor,
                   cursor_assigned, mapping_cursor>>

\* lines 133-134
SendMessage ==
    /\ pc = "send_message"
    /\ \E outcome \in SendOutcomes :
         LET r == send_message(message, outcome) IN
         /\ last_sent' = Some(message)
         /\ sent_count' = sent_count (+) SetToBag({message})
         /\ send_outcome' = outcome
         /\ calls_in_cycle' = calls_in_cycle + TransportCalls(outcome)
         /\ IF Raised(r)
            THEN /\ RaiseInTry(r.error[1])
                 /\ UNCHANGED previous_message
            ELSE /\ previous_message' = Remember(previous_message, message, outcome)
                 /\ pc' = "finally"
                 /\ UNCHANGED <<message, propagating, failed>>
    /\ UNCHANGED <<env, timestamp, api, response, homework, cycle,
                   repeated, calls_prev_cycle, sleeps_since_fetch, cycle_cursor,
                   cursor_assigned, mapping_cursor>>

\* lines 141-142: an exception raised inside the handler leaves the try
\* statement through finally
ExceptSendMessage ==
    /\ pc = "except_send_message"
    /\ \E outcome \in SendOutcomes :
         LET r == send_message(message, outcome) IN
         /\ last_sent' = Some(message)
         /\ sent_count' = sent_count (+) SetToBag({message})
         /\ send_outcome' = outcome
         /\ calls_in_cycle' = calls_in_cycle + TransportCalls(outcome)
         /\ IF Raised(r)
            THEN /\ propagating' = TRUE
                 /\ UNCHANGED previous_message
            ELSE /\ previous_message' = Remember(previous_message, message, outcome)
                 /\ UNCHANGED propagating
         /\ pc' = "finally"
    /\ UNCHANGED <<env, timestamp, api, response, homework, message,
                   cycle, repeated, calls_prev_cycle, sleeps_since_fetch, failed,
                   cycle_cursor,
                   cursor_assigned, mapping_cursor>>

\* line 145, then back to line 122 unless an exception is propagating
Sleep ==
    /\ pc = "finally"
    /\ sleeps_since_fetch' = sleeps_since_fetch + 1
    /\ pc' = IF propagating THEN "terminated" ELSE "get_api_answer"
    /\ cycle_cursor' = timestamp
    /\ UNCHANGED <<env, timestamp, previous_message, api, response,
                   homework, message, propagating, last_sent, sent_count,
                   send_outcome, cycle, repeated, calls_in_cycle,
                   calls_prev_cycle, failed, cursor_assigned, mapping_cursor>>

Next ==
    \/ Start
    \/ GetApiAnswer
    \/ ReadCurrentDate
    \/ CheckResponse
    \/ ParseStatus
    \/ Compare
    \/ ExceptCompare
    \/ SendMessage
    \/ ExceptSendMessage
    \/ Sleep

Spec == Init /\ [][Next]_vars

TypeOK ==
    /\ pc \in {"main", "exit", "get_api_answer", "current_date", "check_response",
               "parse_status", "compare", "except_compare", "send_message",
               "except_send_message", "finally", "terminated"}
    /\ cycle \in 0..MaxCycles
    /\ BagCardinality(sent_count) <= cycle
    /\ pc = "get_api_answer" => cycle_cursor = timestamp

(***************************************************************************)
(* Properties                                                              *)
(***************************************************************************)
IsErrorReport(m) == Len(m) > 0 /\ m[1] = "Program failure: "

NamesEndpoint(m) == \E i \in 1..Len(m) : m[i] = ENDPOINT

InHandler == pc \in {"except_compare", "except_send_message"}

AfterBody == pc \in {"finally", "get_api_answer"} /\ cycle > 0

\* some stage of this iteration's fetch / validate / translate chain raises
CycleRaises ==
    \/ Raised(get_api_answer(api))
    \/ Raised(get_current_date(response))
    \/ Raised(check_response(response))
    \/ Raised(parse_status(homework))

\* C1: any two consecutive send_message invocations, for status messages or
\* error reports alike, carry different message texts.
C1_NoRepeatedSend ==
    [][BagCardinality(sent_count') > BagCardinality(sent_count)
         => last_sent' # last_sent]_vars

\* C1 witness: two invocations have happened and a later iteration ended
\* without one (its message was a duplicate).
C1_Witness ==
    /\ BagCardinality(sent_count) >= 2
    /\ pc = "finally"
    /\ calls_in_cycle = 0

C3_Original ==
    [][(send_outcome = "none" /\ send_outcome' = "TelegramError")
         => previous_message' = previous_message]_vars

\* C4: after an iteration that fetched, validated and translated without
\* raising, the timestamp of the next request is the current_date of that
\* iteration's response, whether its message was sent or was a duplicate.
C4_CursorFollowsResponse ==
    (AfterBody /\ ~failed) =>
        /\ api.body = Some(response)
        /\ timestamp = [from_date |-> response.current_date]
        /\ pc = "get_api_answer" => cycle_cursor = [from_date |-> response.current_date]

\* C4 witness: an iteration whose message was a duplicate has moved the
\* timestamp to 300.
C4_Witness ==
    /\ pc = "finally"
    /\ ~failed
    /\ cycle >= 2
    /\ calls_in_cycle = 0
    /\ timestamp = [from_date |-> Some(300)]
    /\ cycle_cursor # timestamp

\* C5 as stated: two consecutive iterations that receive the same API
\* response invoke send_message exactly once between them.
C5_Original ==
    (repeated /\ ~api.raised /\ pc = "get_api_answer") =>
        calls_prev_cycle + calls_in_cycle = 1

\* C5 amended: the second of two consecutive iterations that receive the
\* same API response never invokes send_message, so the two invoke it at
\* most once between them.
C5_SecondSuppressed ==
    (repeated /\ ~api.raised) =>
        /\ pc \notin {"send_message", "except_send_message"}
        /\ calls_in_cycle = 0
        /\ calls_prev_cycle + calls_in_cycle <= 1

\* C5 witness: the same response twice, one invocation, made by the first.
C5_Witness ==
    /\ repeated
    /\ ~api.raised
    /\ pc = "get_api_answer"
    /\ calls_prev_cycle = 1
    /\ calls_in_cycle = 0

\* C6 as stated: no error-report text is passed to send_message more than
\* once in a run.
C6_Original ==
    \A m \in BagToSet(sent_count) : IsErrorReport(m) => CopiesIn(m, sent_count) <= 1

\* C6 amended: an error report is passed to send_message exactly when the
\* latest invocation carried a different text; an iteration whose report
\* equals the latest invocation's text sends nothing.
C6_ErrorReportDedup ==
    failed =>
        /\ pc = "except_send_message" => last_sent # Some(message)
        /\ (AfterBody /\ calls_in_cycle = 0) => last_sent = Some(message)

\* C6 witness: an iteration failed with a report already sent once, and sent
\* nothing.
C6_Witness ==
    /\ failed
    /\ pc = "finally"
    /\ calls_in_cycle = 0
    /\ IsErrorReport(message)
    /\ CopiesIn(message, sent_count) = 1

\* C7: between a request and the next there is exactly one time.sleep call,
\* on the sent, duplicate and failure paths alike, and none inside the body.
C7_OneSleepPerCycle ==
    /\ (pc = "get_api_answer" /\ cycle > 0) => sleeps_since_fetch = 1
    /\ pc \in {"current_date", "check_response", "parse_status", "compare",
               "except_compare", "send_message", "except_send_message",
               "finally"} => sleeps_since_fetch = 0

\* C7 witness: an iteration whose error report was a duplicate has slept
\* once and the loop is at its next request.
C7_Witness ==
    /\ pc = "get_api_answer"
    /\ cycle >= 2
    /\ failed
    /\ calls_in_cycle = 0
    /\ sleeps_since_fetch = 1

\* C8: no failure of the fetch, validate or translate stage ends the loop:
\* the iteration that raises is the one that handles it, its candidate
\* message is an error report, and no exception leaves the try statement.
C8_FailuresCaught ==
    /\ pc # "terminated"
    /\ ~propagating
    /\ (InHandler \/ pc = "finally") => (failed <=> CycleRaises)
    /\ (failed /\ cycle > 0) =>
          /\ IsErrorReport(message)
          /\ pc \in {"except_compare", "except_send_message", "finally",
                     "get_api_answer"}

\* C8 witness: an iteration failed with an empty status and the loop is at
\* its next request.
C8_Witness ==
    /\ failed
    /\ pc = "get_api_answer"
    /\ message = ErrorReport(Exception("ValueError", <<"Review status is empty">>))

\* C9 as stated: when requests.get raises, the candidate message is an
\* error report that names the endpoint.
C9_Original ==
    (api.raised /\ InHandler) => (IsErrorReport(message) /\ NamesEndpoint(message))

\* C10: bot.send_message is called at most once per iteration, and after a
\* call that raised TelegramError the iteration goes to its sleep and the
\* loop to its next request.
C10_NoRetryNoExit ==
    /\ calls_in_cycle <= 1
    /\ send_outcome = "TelegramError" =>
          /\ calls_in_cycle = 1
          /\ pc \in {"finally", "get_api_answer"}
          /\ ~propagating

\* C10 witness: a call raised TelegramError, the iteration slept, and the
\* loop is at its next request.
C10_Witness ==
    /\ send_outcome = "TelegramError"
    /\ pc = "get_api_answer"
    /\ sleeps_since_fetch = 1
    /\ calls_in_cycle = 1

\* this iteration's response is a dict whose homeworks value is a list
HomeworksIsList ==
    /\ cycle > 0
    /\ api.body = Some(response)
    /\ response.type = "dict"
    /\ response.homeworks # None
    /\ response.homeworks[1].type = "list"

EmptyCollection == HomeworksIsList /\ response.homeworks[1].items = << >>

\* C11 as stated: the no-change message is passed to send_message at most
\* once in a run, at its first occurrence.
C11_Original == CopiesIn(NoChangeMessage, sent_count) <= 1

\* C11 amended: a response with an empty homeworks list never fails and
\* yields the no-change message; the message is sent at its first occurrence
\* and whenever the latest invocation carried another text, and is
\* suppressed only while the latest invocation carried it.
C11_NoChangeDedup ==
    EmptyCollection =>
        /\ ~failed
        /\ ~InHandler
        /\ pc \in {"compare", "send_message", "finally", "get_api_answer"}
              => message = NoChangeMessage
        /\ pc = "send_message" => last_sent # Some(NoChangeMessage)
        /\ AfterBody =>
              /\ CopiesIn(NoChangeMessage, sent_count) >= 1
              /\ last_sent = Some(NoChangeMessage)

\* C11 witness: the no-change message was sent once before and this
\* iteration, with an empty list again, sent nothing.
C11_Witness ==
    /\ EmptyCollection
    /\ pc = "finally"
    /\ cycle >= 2
    /\ calls_in_cycle = 0
    /\ CopiesIn(NoChangeMessage, sent_count) = 1

\* C12: when one of the three environment values is absent (or empty), the
\* process ends at line 115: no request is made, send_message is never
\* invoked and time.sleep is never called.
C12_NoLoopWithoutTokens ==
    (\E n \in TokenNames : env[n] \in {None, Some("")}) =>
        /\ pc \in {"main", "exit"}
        /\ cycle = 0
        /\ api = NoOutcome
        /\ last_sent = None
        /\ sent_count = EmptyBag
        /\ calls_in_cycle = 0
        /\ sleeps_since_fetch = 0

\* C12 witness: one value is absent, the other two are set, and the process
\* has exited.
C12_Witness ==
    /\ pc = "exit"
    /\ env["TELEGRAM_CHAT_ID"] = None
    /\ env["PRACTICUM_TOKEN"] = Some("secret")
    /\ env["TELEGRAM_TOKEN"] = Some("secret")

\* the first element of a non-empty homeworks list
FirstSubmission == response.homeworks[1].items[1]

NonEmptyCollection == HomeworksIsList /\ response.homeworks[1].items # << >>

MissingNameReport ==
    ErrorReport(Exception("KeyError", KeyErrorText("Missing key \"homework_name\"")))

\* C13 as stated: when the first element of a non-empty homeworks list has
\* no homework_name key, an empty dict included, translation fails with the
\* missing-key error for the name.
C13_Original ==
    (/\ NonEmptyCollection
     /\ "homework_name" \notin DOMAIN FirstSubmission
     /\ pc \in {"compare", "except_compare"})
        => (pc = "except_compare" /\ failed /\ message = MissingNameReport)

(***************************************************************************)
(* parse_status on its own: the loop is placed at line 130 with a homework *)
(* drawn from a wider set of names and statuses.                           *)
(***************************************************************************)
TranslateNames == {"", "hw1", "hw2", "final project", "hw 1", "approved"}

TranslateStatuses ==
    {"", "approved", "reviewing", "rejected", "bogus", "APPROVED", "pending"}

TranslateHomeworks ==
    {hw \in UNION {[d -> TranslateNames \cup TranslateStatuses] :
                      d \in SUBSET HomeworkKeys} :
        /\ "homework_name" \in DOMAIN hw => hw["homework_name"] \in TranslateNames
        /\ "status" \in DOMAIN hw => hw["status"] \in TranslateStatuses}

InitTranslate ==
    /\ env = [n \in TokenNames |-> Some("secret")]
    /\ pc = "parse_status"
    /\ \E t \in StartTimes :
         /\ timestamp = [from_date |-> Some(t)]
         /\ cycle_cursor = [from_date |-> Some(t)]
         /\ mapping_cursor = [from_date |-> Some(t)]
    /\ cursor_assigned = TRUE
    /\ previous_message = << >>
    /\ api = NoOutcome
    /\ response = NoDocument
    /\ homework \in TranslateHomeworks
    /\ message = << >>
    /\ propagating = FALSE
    /\ last_sent = None
    /\ sent_count = EmptyBag
    /\ send_outcome = "none"
    /\ cycle = 1
    /\ repeated = FALSE
    /\ calls_in_cycle = 0
    /\ calls_prev_cycle = 0
    /\ sleeps_since_fetch = 0
    /\ failed = FALSE

NextTranslate == ParseStatus

SpecTranslate == InitTranslate /\ [][NextTranslate]_vars

\* the verdict texts of the three recognized statuses
ExpectedVerdict(status) ==
    CASE status = "reviewing" -> "Taken up for review by the reviewer."
      [] status = "approved" -> "Reviewed: the reviewer liked everything. Success!"
      [] status = "rejected" -> "Reviewed: the reviewer has comments."

\* C14: for a homework with a name and a status among reviewing, approved
\* and rejected, parse_status returns the template filled with that name and
\* that status's verdict text; for a homework whose status is any other
\* value, the empty string included, it raises and returns no message.
C14_Translation ==
    (pc \in {"compare", "except_compare"} /\ "status" \in DOMAIN homework) =>
        IF /\ "homework_name" \in DOMAIN homework
           /\ homework["status"] \in {"reviewing", "approved", "rejected"}
        THEN /\ pc = "compare"
             /\ ~failed
             /\ message = <<"Status changed for submission \"",
                            homework["homework_name"], "\". ",
                            ExpectedVerdict(homework["status"])>>
        ELSE /\ pc = "except_compare"
             /\ failed
             /\ IsErrorReport(message)

\* C14 witness: the homework named hw2 with status rejected has been
\* translated.
C14_Witness ==
    /\ pc = "compare"
    /\ DOMAIN homework = HomeworkKeys
    /\ homework["homework_name"] = "hw2"
    /\ homework["status"] = "rejected"

\* this iteration's request returned 200 with a body that decodes to
\* something other than a dict
NonMappingDocument ==
    /\ cycle > 0
    /\ ~api.raised
    /\ api.status_code = HTTPStatus_OK
    /\ api.body # None
    /\ api.body[1].type # "dict"

\* C15 as stated: for a decoded document that is not a dict, the failure the
\* loop reports is check_response's TypeError with the offending type.
C15_Original ==
    (NonMappingDocument /\ InHandler) =>
        message = ErrorReport(Exception("TypeError",
                      <<"Invalid data type: ">> \o TypeRepr(api.body[1].type)))

\* previous_message is the text of the latest send_message invocation, or
\* '' when there has been none
MemoryIsLastSent ==
    previous_message = IF last_sent = None THEN << >> ELSE last_sent[1]

\* C16: in every state previous_message is the text of the latest
\* send_message invocation ('' before the first), and an iteration whose
\* candidate message equals previous_message goes to its sleep and on to the
\* next request with previous_message unchanged.
C16_MemoryFollowsSends ==
    [][/\ MemoryIsLastSent
       /\ MemoryIsLastSent'
       /\ (pc \in {"compare", "except_compare"} /\ message = previous_message)
             => (pc' = "finally" /\ previous_message' = previous_message)
       /\ pc = "finally" => previous_message' = previous_message]_vars

\* C16 witness: the second invocation of the run raised TelegramError and
\* previous_message holds its text.
C16_Witness ==
    /\ pc = "finally"
    /\ send_outcome = "TelegramError"
    /\ BagCardinality(sent_count) = 2
    /\ last_sent = Some(message)
    /\ previous_message = message

\* the timestamp is the start time or the current_date of the latest
\* response that was returned with status 200 and decoded to a dict
CursorIsLatestMappingDate ==
    pc \notin {"main", "exit", "current_date"} => timestamp = mapping_cursor

\* C17 as stated: at every request the timestamp is the start time or the
\* current_date of the latest response decoded to a dict, and an iteration
\* that failed without replacing the timestamp is one whose fetch failed.
\* Every failure raised inside get_api_answer is counted as a fetch failure
\* here, the undecodable body included.
C17_Original ==
    /\ CursorIsLatestMappingDate
    /\ (failed /\ (InHandler \/ pc = "finally") /\ ~cursor_assigned)
          => Raised(get_api_answer(api))

\* C17 amended: at every request the timestamp is the start time or the
\* current_date of the latest response decoded to a dict, and an iteration
\* that failed leaves the timestamp as it was exactly when get_api_answer
\* raised (request failure, status other than 200, undecodable body) or the
\* decoded document is not a dict.
C17_CursorSource ==
    /\ CursorIsLatestMappingDate
    /\ (failed /\ (InHandler \/ pc = "finally")) =>
          /\ ~cursor_assigned <=> (Raised(get_api_answer(api)) \/ NonMappingDocument)
          /\ ~cursor_assigned => timestamp = cycle_cursor

\* C17 witness: an earlier dict moved the timestamp to 300; this iteration's
\* document is not a dict and the timestamp is still 300.
C17_Witness ==
    /\ NonMappingDocument
    /\ pc = "finally"
    /\ failed
    /\ ~cursor_assigned
    /\ timestamp = [from_date |-> Some(300)]

\* a str that is not ''
NonEmptyText(m) == \E i \in 1..Len(m) : m[i] # ""

\* C18: every candidate message is a non-empty string, so in the first
\* iteration it differs from the initial previous_message '' and
\* send_message is invoked exactly once, whatever the API did.
C18_FirstCycleSends ==
    /\ pc \in {"compare", "except_compare", "send_message", "except_send_message"}
          => NonEmptyText(message)
    /\ (cycle = 1 /\ pc \in {"compare", "except_compare"})
          => (previous_message = << >> /\ message # previous_message)
    /\ (cycle = 1 /\ AfterBody)
          => (calls_in_cycle = 1 /\ BagCardinality(sent_count) = 1)

\* C18 witness: the first request raised, and the first iteration has made
\* its one invocation and is at the next request.
C18_Witness ==
    /\ cycle = 1
    /\ pc = "get_api_answer"
    /\ api.raised
    /\ calls_in_cycle = 1
    /\ BagCardinality(sent_count) = 1

====
